---- MODULE Spec2Model ----
(***************************************************************************)
(* tilewarm, src/cli-parser.js: the option pipeline behind getOpts.        *)
(*                                                                         *)
(* JavaScript strings are sequences of one-character strings, so that the  *)
(* regular expressions, split, indexOf, Number and parseFloat of the code  *)
(* are computed character by character.  JavaScript values are tagged      *)
(* records (Undefined, Null, Str, Bool, Num, NaN, Arr, Obj, functions).    *)
(***************************************************************************)
EXTENDS Integers, Sequences, FiniteSets, TLC

VARIABLES defaultOpts, argv, outcome, calls, unitFn, unitIn, unitOut

vars == <<defaultOpts, argv, outcome, calls, unitFn, unitIn, unitOut>>

(***************************************************************************)
(* Bounds of the model.                                                    *)
(***************************************************************************)
\* getOpts calls made in one process
MaxCalls == 2
\* characters of a zoom string handed to the zoom grammar / parseZoomRange
MaxZoomLen == 5
\* path segments after the scheme of a url handed to assertTemplateUrl
MaxUrlParts == 3

(***************************************************************************)
(* JavaScript values.                                                      *)
(***************************************************************************)
Undefined == [t |-> "undefined"]
Null == [t |-> "null"]
Str(s) == [t |-> "string", s |-> s]
Bool(b) == [t |-> "boolean", b |-> b]
\* a finite number m * 10^(-k), k > 0 only when m is not a multiple of 10
Dec(m, k) == [t |-> "number", m |-> m, k |-> k]
Num(n) == Dec(n, 0)
NaN == [t |-> "number", nan |-> TRUE]
Obj(f) == [t |-> "object", o |-> f]
Arr(a) == [t |-> "array", a |-> a]
\* (z) => number
ConstFn(n) == [t |-> "function", returns |-> n]
\* new Function('z', `return ${val}`)
ExprFn(src) == [t |-> "function", body |-> src]

EmptyObj == [k \in {} |-> Undefined]

IsStr(v) == v.t = "string"

\* JavaScript truthiness of the values an option can hold
Truthy(v) ==
  CASE v.t = "undefined" -> FALSE
    [] v.t = "null" -> FALSE
    [] v.t = "string" -> v.s /= <<>>
    [] v.t = "boolean" -> v.b
    [] v.t = "number" -> IF "nan" \in DOMAIN v THEN FALSE ELSE v.m /= 0
    [] OTHER -> TRUE

\* obj[key]: undefined when the key is missing
Get(obj, key) == IF key \in DOMAIN obj THEN obj[key] ELSE Undefined

\* String(v) for the values that reach a string operation
JsString(v) ==
  CASE v.t = "string" -> v.s
    [] v.t = "undefined" -> <<"u", "n", "d", "e", "f", "i", "n", "e", "d">>
    [] v.t = "null" -> <<"n", "u", "l", "l">>
    [] OTHER -> <<"?">>

(***************************************************************************)
(* String primitives.                                                      *)
(***************************************************************************)
DigitChars == {"0", "1", "2", "3", "4", "5", "6", "7", "8", "9"}

DigitVal(c) ==
  CASE c = "0" -> 0 [] c = "1" -> 1 [] c = "2" -> 2 [] c = "3" -> 3
    [] c = "4" -> 4 [] c = "5" -> 5 [] c = "6" -> 6 [] c = "7" -> 7
    [] c = "8" -> 8 [] c = "9" -> 9

\* \d+ against the whole of s
AllDigits(s) == s /= <<>> /\ \A i \in 1..Len(s) : s[i] \in DigitChars

\* the decimal value of a digit string; the empty string is 0
RECURSIVE DecimalValue(_)
DecimalValue(s) ==
  IF s = <<>> THEN 0
  ELSE 10 * DecimalValue(SubSeq(s, 1, Len(s) - 1)) + DigitVal(s[Len(s)])

\* whether sub occurs in s at position i (1-based)
OccursAt(s, sub, i) ==
  /\ i + Len(sub) - 1 <= Len(s)
  /\ \A j \in 1..Len(sub) : s[i + j - 1] = sub[j]

StartsWith(s, sub) == OccursAt(s, sub, 1)

EndsWith(s, sub) == Len(sub) <= Len(s) /\ OccursAt(s, sub, Len(s) - Len(sub) + 1)

\* String.prototype.indexOf, 0-based, -1 when sub does not occur
IndexOf(s, sub) ==
  LET hits == {i \in 1..(Len(s) + 1) : OccursAt(s, sub, i)}
  IN IF hits = {} THEN -1 ELSE (CHOOSE i \in hits : \A j \in hits : i <= j) - 1

\* String.prototype.split on a one-character separator
RECURSIVE Split(_, _)
Split(s, sep) ==
  LET at == IndexOf(s, <<sep>>)
  IN IF at = -1 THEN <<s>>
     ELSE <<SubSeq(s, 1, at)>> \o Split(SubSeq(s, at + 2, Len(s)), sep)

\* the number of leading characters of s that are in set
RECURSIVE SpanLen(_, _)
SpanLen(s, set) ==
  IF s = <<>> \/ s[1] \notin set THEN 0 ELSE 1 + SpanLen(Tail(s), set)

RECURSIVE Pow10(_)
Pow10(k) == IF k = 0 THEN 1 ELSE 10 * Pow10(k - 1)

\* m * 10^(-k) with the trailing zeros of the fraction removed
RECURSIVE Normalize(_, _)
Normalize(m, k) ==
  IF k > 0 /\ m % 10 = 0 THEN Normalize(m \div 10, k - 1) ELSE Dec(m, k)

\* parseFloat: leading blanks, a sign, digits, a fraction; NaN without a digit.
\* The strings of this model hold no exponent and no "Infinity".
ParseFloat(s) ==
  LET ws == SpanLen(s, {" "})
      s1 == SubSeq(s, ws + 1, Len(s))
      sg == IF s1 /= <<>> /\ s1[1] \in {"+", "-"} THEN 1 ELSE 0
      neg == sg = 1 /\ s1[1] = "-"
      s2 == SubSeq(s1, sg + 1, Len(s1))
      ni == SpanLen(s2, DigitChars)
      s3 == SubSeq(s2, ni + 1, Len(s2))
      dot == s3 /= <<>> /\ s3[1] = "."
      nf == IF dot THEN SpanLen(Tail(s3), DigitChars) ELSE 0
      ip == SubSeq(s2, 1, ni)
      fp == IF dot THEN SubSeq(Tail(s3), 1, nf) ELSE <<>>
      mag == DecimalValue(ip) * Pow10(nf) + DecimalValue(fp)
  IN IF ni + nf = 0 THEN NaN
     ELSE Normalize(IF neg THEN 0 - mag ELSE mag, nf)

(***************************************************************************)
(* Errors.  throwArgumentError tags the error; anything else that is       *)
(* thrown (a SyntaxError, a file-system error) carries no tag.             *)
(***************************************************************************)
NoThrow == [thrown |-> FALSE, argumentError |-> FALSE, message |-> ""]

throwArgumentError(message) ==
  [thrown |-> TRUE, argumentError |-> TRUE, message |-> message]

\* an error raised by the runtime or a library, not by throwArgumentError
ThrowPlain(message) ==
  [thrown |-> TRUE, argumentError |-> FALSE, message |-> message]

(***************************************************************************)
(* Primitive parsers.                                                      *)
(***************************************************************************)
\* _.map(String(point).split(','), parseFloat): lat = nums[0], lng = nums[1]
parsePoint(point) ==
  LET arr == Split(JsString(point), ",")
  IN Obj([lat |-> ParseFloat(arr[1]),
          lng |-> IF Len(arr) >= 2 THEN ParseFloat(arr[2]) ELSE Undefined])

parseBuffer(buffer) ==
  LET s == JsString(buffer)
  IN Obj([radius |-> ParseFloat(s),
          unit |-> IF EndsWith(s, <<"m", "i">>)
                   THEN Str(<<"m", "i", "l", "e", "s">>)
                   ELSE Str(<<"k", "i", "l", "o", "m", "e", "t", "e", "r", "s">>)])

\* /^((\d+\-\d+)|(\d+(,\d+)*))$/.test(zoom)
ZoomGrammarTest(s) ==
  \/ \E i \in 1..Len(s) :
       /\ s[i] = "-"
       /\ AllDigits(SubSeq(s, 1, i - 1))
       /\ AllDigits(SubSeq(s, i + 1, Len(s)))
  \/ LET parts == Split(s, ",")
     IN \A i \in 1..Len(parts) : AllDigits(parts[i])

\* _.range(start, end) with no step (lodash 4): the step is 1 when start < end
\* and -1 otherwise, and the length is max(ceil((end - start) / step), 0).
\* So range(5, 5) is empty and range(9, 4) is 9, 8, 7, 6, 5.
Range(start, end) ==
  LET step == IF start < end THEN 1 ELSE -1
      length == IF start < end THEN end - start ELSE start - end
  IN [i \in 1..length |-> start + (i - 1) * step]

\* the position at which x goes into the ascending sequence s, after its equals
RECURSIVE SortedInsert(_, _)
SortedInsert(s, x) ==
  IF s = <<>> THEN <<x>>
  ELSE IF s[Len(s)] <= x THEN Append(s, x)
  ELSE Append(SortedInsert(SubSeq(s, 1, Len(s) - 1), x), s[Len(s)])

\* _.sortBy(nums): a stable ascending sort
RECURSIVE SortBy(_)
SortBy(nums) ==
  IF nums = <<>> THEN <<>>
  ELSE SortedInsert(SortBy(SubSeq(nums, 1, Len(nums) - 1)), nums[Len(nums)])

\* a plausible slip: _.range(min, max), which leaves the upper end out
parseZoomRange_Exclusive(zoom) ==
  IF IndexOf(zoom, <<"-">>) > -1
  THEN LET parts == Split(zoom, "-")
       IN Range(DecimalValue(parts[1]), DecimalValue(parts[2]))
  ELSE LET parts == Split(zoom, ",")
       IN SortBy([i \in 1..Len(parts) |-> DecimalValue(parts[i])])

\* zoom is a character sequence the zoom grammar has accepted, so every part
\* Number() sees is a digit string
parseZoomRange(zoom) ==
  IF IndexOf(zoom, <<"-">>) > -1
  THEN LET parts == Split(zoom, "-")
           min == DecimalValue(parts[1])
           max == DecimalValue(parts[2])
       IN Range(min, max + 1)
  ELSE LET parts == Split(zoom, ",")
           nums == [i \in 1..Len(parts) |-> DecimalValue(parts[i])]
       IN SortBy(nums)

\* a sequence of integers as a JavaScript array
NumArr(seq) == Arr([i \in 1..Len(seq) |-> Num(seq[i])])

(***************************************************************************)
(* Url validation.                                                         *)
(***************************************************************************)
PlaceholderX == <<"{", "x", "}">>
PlaceholderY == <<"{", "y", "}">>
PlaceholderZ == <<"{", "z", "}">>

\* /^https?\:/.test(template)
HttpSchemeTest(s) ==
  \/ StartsWith(s, <<"h", "t", "t", "p", ":">>)
  \/ StartsWith(s, <<"h", "t", "t", "p", "s", ":">>)

MissingParameterMessage(param) ==
  CASE param = PlaceholderX -> "Template url is missing parameter: {x}"
    [] param = PlaceholderY -> "Template url is missing parameter: {y}"
    [] param = PlaceholderZ -> "Template url is missing parameter: {z}"

assertTemplateUrlParameter(template, param) ==
  IF IndexOf(JsString(template), param) = -1
  THEN throwArgumentError(MissingParameterMessage(param))
  ELSE NoThrow

\* a plausible slip: the placeholders are checked in the order of the url, z first
assertTemplateUrl_ZFirst(template) ==
  IF ~HttpSchemeTest(JsString(template)) THEN throwArgumentError("Invalid url")
  ELSE IF assertTemplateUrlParameter(template, PlaceholderZ).thrown
       THEN assertTemplateUrlParameter(template, PlaceholderZ)
  ELSE IF assertTemplateUrlParameter(template, PlaceholderX).thrown
       THEN assertTemplateUrlParameter(template, PlaceholderX)
  ELSE assertTemplateUrlParameter(template, PlaceholderY)

\* the first of the four checks that throws decides the error
assertTemplateUrl(template) ==
  IF ~HttpSchemeTest(JsString(template)) THEN throwArgumentError("Invalid url")
  ELSE IF assertTemplateUrlParameter(template, PlaceholderX).thrown
       THEN assertTemplateUrlParameter(template, PlaceholderX)
  ELSE IF assertTemplateUrlParameter(template, PlaceholderY).thrown
       THEN assertTemplateUrlParameter(template, PlaceholderY)
  ELSE assertTemplateUrlParameter(template, PlaceholderZ)

(***************************************************************************)
(* Input loader.  The file system is the environment of the call: a path   *)
(* either names no file, or a file whose text JSON.parse accepts (and the  *)
(* value it denotes), or a file whose text it rejects.                     *)
(***************************************************************************)
PointJson == <<"p", ".", "j", "s", "o", "n">>
BrokenJson == <<"b", ".", "j", "s", "o", "n">>
MissingJson == <<"m", ".", "j", "s", "o", "n">>

\* {"type":"Point","coordinates":[1,2]}
PointGeometry ==
  Obj([type |-> Str(<<"P", "o", "i", "n", "t">>),
       coordinates |-> Arr(<<Num(1), Num(2)>>)])

\* p.json holds the geometry above, b.json holds {not json, m.json does not exist
Files ==
  (PointJson :> [json |-> TRUE, value |-> PointGeometry])
  @@ (BrokenJson :> [json |-> FALSE, value |-> Undefined])

\* the outcome of one parser: what it threw, what it returned, what it did
Result(err, value, steps) == [err |-> err, value |-> value, steps |-> steps]

\* a plausible slip: the try block also covers the read, so that a failed read
\* is reported as invalid JSON
parseInput_ReadInsideTry(input) ==
  IF ~Truthy(input) THEN Result(NoThrow, Null, <<>>)
  ELSE LET path == JsString(input)
       IN IF path \notin DOMAIN Files
          THEN Result(throwArgumentError("Invalid JSON"), Undefined, <<"readFileSync">>)
          ELSE IF ~Files[path].json
          THEN Result(throwArgumentError("Invalid JSON"), Undefined,
                      <<"readFileSync", "JSON.parse">>)
          ELSE Result(NoThrow, Files[path].value, <<"readFileSync", "JSON.parse">>)

parseInput(input) ==
  IF ~Truthy(input) THEN Result(NoThrow, Null, <<>>)
  ELSE LET path == JsString(input)
       IN IF path \notin DOMAIN Files
          THEN Result(ThrowPlain("ENOENT"), Undefined, <<"readFileSync">>)
          ELSE IF ~Files[path].json
          THEN Result(throwArgumentError("Invalid JSON"), Undefined,
                      <<"readFileSync", "JSON.parse">>)
          ELSE Result(NoThrow, Files[path].value, <<"readFileSync", "JSON.parse">>)

(***************************************************************************)
(* Number-or-function directives.                                          *)
(***************************************************************************)
\* z<8?2:z*2
ZoomExpression == <<"z", "<", "8", "?", "2", ":", "z", "*", "2">>
\* z*(
BrokenExpression == <<"z", "*", "(">>

\* The bodies `return ${val}` that the engine's parser accepts, among the
\* directive strings of this model that are not digit strings.
SyntaxValid(val) == val \in {ZoomExpression, <<>>}

\* Number(val) of a digit string of the model's lengths is finite
assertNumber(val) == Result(NoThrow, Num(DecimalValue(val)), <<>>)

parseNumberOrZoomFunction(val) ==
  LET s == JsString(val)
  IN IF AllDigits(s)
     THEN Result(NoThrow, ConstFn(assertNumber(s).value), <<>>)
     ELSE IF SyntaxValid(s)
          THEN Result(NoThrow, ExprFn(s), <<"new Function">>)
          ELSE Result(ThrowPlain("SyntaxError"), Undefined, <<"new Function">>)

(***************************************************************************)
(* _.merge: own keys of source are merged into object recursively; a       *)
(* source value of undefined is skipped when the key exists; arrays and    *)
(* plain objects are merged key by key, anything else is assigned.         *)
(***************************************************************************)
RECURSIVE Merge(_, _)
RECURSIVE MergeValue(_, _, _)

MergeValue(has, objValue, srcValue) ==
  CASE srcValue.t = "object" ->
         Obj(Merge(IF has /\ objValue.t = "object" THEN objValue.o ELSE EmptyObj,
                   srcValue.o))
    [] srcValue.t = "array" ->
         LET base == IF has /\ objValue.t = "array" THEN objValue.a ELSE <<>>
             n == IF Len(base) > Len(srcValue.a) THEN Len(base) ELSE Len(srcValue.a)
         IN Arr([i \in 1..n |->
                  IF i > Len(srcValue.a) THEN base[i]
                  ELSE MergeValue(i <= Len(base),
                                  IF i <= Len(base) THEN base[i] ELSE Undefined,
                                  srcValue.a[i])])
    [] srcValue.t = "undefined" -> IF has THEN objValue ELSE Undefined
    [] OTHER -> srcValue

Merge(object, source) ==
  [k \in DOMAIN object \cup DOMAIN source |->
     IF k \notin DOMAIN source THEN object[k]
     ELSE MergeValue(k \in DOMAIN object, Get(object, k), source[k])]

(***************************************************************************)
(* The option pipeline.                                                    *)
(***************************************************************************)
\* the object literal the module starts with; it has no point key
BuiltinDefaults ==
  [buffer |-> Str(<<"0", "k", "m">>),
   zoom |-> Str(<<"3", "-", "9">>),
   list |-> Bool(FALSE),
   input |-> Null,
   method |-> Str(<<"G", "E", "T">>),
   headers |-> Obj(EmptyObj),
   concurrency |-> Str(<<"5">>),
   verbose |-> Bool(FALSE),
   maxRetries |-> Str(<<"5">>),
   retryBaseTimeout |-> Str(<<"5", "0", "0", "0">>),
   requestTimeout |-> Num(10 * 60 * 1000)]

\* the options declared with a default read from defaultOpts
DeclaredOptions ==
  {"point", "buffer", "zoom", "list", "input", "requestTimeout", "verbose",
   "maxRetries", "retryBaseTimeout", "concurrency", "method"}

\* yargs on the command line cmd (the options given, and url when a positional
\* argument is given): a declared option that is not given takes its default,
\* which is read from defaults when the call is made; an undeclared option
\* (headers) is passed through; url is the first positional argument.  The
\* alias and kebab-case copies of the keys, which no later step reads, are
\* left out.
getUserOpts(defaults, cmd) ==
  [k \in DeclaredOptions \cup DOMAIN cmd \cup {"url"} |->
     IF k \in DOMAIN cmd THEN cmd[k] ELSE Get(defaults, k)]

\* the outcome of a call: kind is "returned", "thrown", "exit" or "none"
Returned(config, steps) ==
  [kind |-> "returned", argumentError |-> FALSE, message |-> "",
   config |-> config, steps |-> steps]

Thrown(err, steps) ==
  [kind |-> "thrown", argumentError |-> err.argumentError,
   message |-> err.message, config |-> EmptyObj, steps |-> steps]

\* the three checks ahead of the transformation, in their order
Validate(opts) ==
  IF Truthy(Get(opts, "point")) /\ ~Truthy(Get(opts, "buffer"))
  THEN throwArgumentError("When --point is set, --buffer must also be set")
  ELSE IF ~ZoomGrammarTest(JsString(Get(opts, "zoom")))
  THEN throwArgumentError("Invalid \"zoom\" argument")
  ELSE assertTemplateUrl(Get(opts, "url"))

\* the object literal of derived fields, evaluated field by field in source
\* order, and its merge over a copy of opts
Transform(opts) ==
  LET buffer == parseBuffer(Get(opts, "buffer"))
      zoom == NumArr(parseZoomRange(JsString(Get(opts, "zoom"))))
      point == parsePoint(Get(opts, "point"))
      input == parseInput(Get(opts, "input"))
      concurrency == parseNumberOrZoomFunction(Get(opts, "concurrency"))
      maxRetries == parseNumberOrZoomFunction(Get(opts, "maxRetries"))
      retryBaseTimeout == parseNumberOrZoomFunction(Get(opts, "retryBaseTimeout"))
      s4 == <<"parseBuffer", "parseZoomRange", "parsePoint", "parseInput">>
              \o input.steps
      s5 == s4 \o <<"parseNumberOrZoomFunction">> \o concurrency.steps
      s6 == s5 \o <<"parseNumberOrZoomFunction">> \o maxRetries.steps
      s7 == s6 \o <<"parseNumberOrZoomFunction">> \o retryBaseTimeout.steps
  IN IF input.err.thrown THEN Thrown(input.err, s4)
     ELSE IF concurrency.err.thrown THEN Thrown(concurrency.err, s5)
     ELSE IF maxRetries.err.thrown THEN Thrown(maxRetries.err, s6)
     ELSE IF retryBaseTimeout.err.thrown THEN Thrown(retryBaseTimeout.err, s7)
     ELSE Returned(
            Merge(Merge(EmptyObj, opts),
                  [buffer |-> buffer,
                   zoom |-> zoom,
                   point |-> point,
                   input |-> input.value,
                   concurrency |-> concurrency.value,
                   maxRetries |-> maxRetries.value,
                   retryBaseTimeout |-> retryBaseTimeout.value]),
            s7 \o <<"merge">>)

\* a plausible slip: the input file is loaded ahead of the checks
validateAndTransformOpts_InputFirst(opts) ==
  LET input == parseInput(Get(opts, "input"))
      v == Validate(opts)
  IN IF input.err.thrown THEN Thrown(input.err, <<"parseInput">> \o input.steps)
     ELSE IF v.thrown THEN Thrown(v, <<"parseInput">> \o input.steps)
     ELSE Transform(opts)

validateAndTransformOpts(opts) ==
  LET v == Validate(opts)
  IN IF v.thrown THEN Thrown(v, <<>>) ELSE Transform(opts)

\* yargs ends the process when no positional argument is given (demand(1))
Exit ==
  [kind |-> "exit", argumentError |-> FALSE, message |-> "",
   config |-> EmptyObj, steps |-> <<>>]

NoCall ==
  [kind |-> "none", argumentError |-> FALSE, message |-> "",
   config |-> EmptyObj, steps |-> <<>>]

\* getOpts on the command line cmd when the module's defaultOpts object holds
\* defaults: what defaultOpts holds afterwards, and the outcome of the call.
\* _.merge(defaultOpts, userOpts) writes into defaultOpts and returns it.
getOpts(defaults, cmd) ==
  IF "url" \notin DOMAIN cmd
  THEN [defaultOpts |-> defaults, outcome |-> Exit]
  ELSE LET userOpts == getUserOpts(defaults, cmd)
           opts == Merge(defaults, userOpts)
       IN [defaultOpts |-> opts, outcome |-> validateAndTransformOpts(opts)]

(***************************************************************************)
(* Command lines.                                                          *)
(***************************************************************************)
Http == <<"h", "t", "t", "p", ":">>
Https == <<"h", "t", "t", "p", "s", ":">>
Ftp == <<"f", "t", "p", ":">>
Slash == <<"/">>

UrlHttp == Http \o Slash \o PlaceholderZ \o Slash \o PlaceholderX \o Slash \o PlaceholderY
UrlHttps == Https \o Slash \o PlaceholderZ \o Slash \o PlaceholderX \o Slash \o PlaceholderY
UrlFtp == Ftp \o Slash \o PlaceholderZ \o Slash \o PlaceholderX \o Slash \o PlaceholderY
UrlNoZ == Http \o Slash \o PlaceholderX \o Slash \o PlaceholderY
UrlNoXY == Https \o Slash \o PlaceholderZ

\* 62.31,23.12
PointArg == <<"6", "2", ".", "3", "1", ",", "2", "3", ".", "1", "2">>
\* 10km and 2.5mi
BufferKm == <<"1", "0", "k", "m">>
BufferMi == <<"2", ".", "5", "m", "i">>

ZoomArgs ==
  {<<"9", ",", "3", ",", "5">>, <<"3", ",", "3", ",", "5">>, <<"3", "-", "5">>,
   <<"9", "-", "3">>, <<"5", "-", "4">>, <<"3", "-">>}

HeaderA == Obj([a |-> Str(<<"1">>)])
HeaderB == Obj([b |-> Str(<<"2">>)])

\* option sets given together with a valid url
OptionSets ==
  {EmptyObj}
  \cup {[point |-> Str(PointArg)],
        [point |-> Str(PointArg), buffer |-> Str(BufferKm)],
        [point |-> Str(PointArg), buffer |-> Str(<<>>)],
        [buffer |-> Str(BufferMi)]}
  \cup {[zoom |-> Str(z)] : z \in ZoomArgs}
  \cup {[input |-> Str(f)] : f \in {PointJson, BrokenJson, MissingJson}}
  \cup {[concurrency |-> Str(d)] : d \in {<<"7">>, ZoomExpression, BrokenExpression}}
  \cup {[maxRetries |-> Str(d)] : d \in {<<"0">>, BrokenExpression}}
  \cup {[retryBaseTimeout |-> Str(ZoomExpression)]}
  \cup {[method |-> Str(<<"P", "O", "S", "T">>)],
        [headers |-> HeaderA],
        [headers |-> HeaderB],
        [list |-> Bool(TRUE)],
        [verbose |-> Bool(TRUE)],
        [requestTimeout |-> Num(1000)]}

\* option sets that name an input file and a zoom expression and then fail a check
LoadedOptionSets ==
  LET loaded == [input |-> Str(PointJson), concurrency |-> Str(ZoomExpression)]
  IN {loaded,
      loaded @@ [point |-> Str(PointArg), buffer |-> Str(<<>>)],
      loaded @@ [zoom |-> Str(<<"3", "-">>)]}

CommandLines ==
  {o @@ [url |-> Str(UrlHttp)] : o \in OptionSets \cup LoadedOptionSets}
  \cup {o @@ [url |-> Str(u)] :
          o \in {EmptyObj} \cup LoadedOptionSets, u \in {UrlHttps, UrlFtp, UrlNoZ, UrlNoXY}}
  \cup {EmptyObj}

(***************************************************************************)
(* Inputs of the single functions.                                         *)
(***************************************************************************)
ZoomChars == {"0", "3", "5", "9", "-", ","}

ZoomStrings == UNION {[1..n -> ZoomChars] : n \in 0..MaxZoomLen}

UrlSchemes == {Http, Https, Ftp, <<"h", "t", "t", "p">>, <<"x">> \o Http, <<>>}

UrlParts == {PlaceholderX, PlaceholderY, PlaceholderZ, Slash}

RECURSIVE Flatten(_)
Flatten(ss) == IF ss = <<>> THEN <<>> ELSE Head(ss) \o Flatten(Tail(ss))

UrlValues ==
  {Undefined}
  \cup {Str(sch \o Flatten(ps)) :
          sch \in UrlSchemes, ps \in UNION {[1..n -> UrlParts] : n \in 0..MaxUrlParts}}

InputValues ==
  {Undefined, Null, Str(<<>>), Str(PointJson), Str(BrokenJson), Str(MissingJson)}

Pending == Result(NoThrow, Undefined, <<"pending">>)

(***************************************************************************)
(* The process: getOpts is called up to MaxCalls times, each time on a     *)
(* command line, against the one defaultOpts object of the module.         *)
(***************************************************************************)
Init ==
  /\ defaultOpts = BuiltinDefaults
  /\ argv = EmptyObj
  /\ outcome = NoCall
  /\ calls = 0
  /\ unitFn = "none"
  /\ unitIn = Undefined
  /\ unitOut = Pending

GetOpts(cmd) ==
  /\ calls < MaxCalls
  /\ outcome.kind /= "exit"
  /\ defaultOpts' = getOpts(defaultOpts, cmd).defaultOpts
  /\ outcome' = getOpts(defaultOpts, cmd).outcome
  /\ argv' = cmd
  /\ calls' = calls + 1
  /\ UNCHANGED <<unitFn, unitIn, unitOut>>

Next == \E cmd \in CommandLines : GetOpts(cmd)

Spec == Init /\ [][Next]_vars

(***************************************************************************)
(* The single functions, each applied once to an input drawn at the start. *)
(***************************************************************************)
InitUnits ==
  /\ defaultOpts = BuiltinDefaults
  /\ argv = EmptyObj
  /\ outcome = NoCall
  /\ calls = 0
  /\ unitOut = Pending
  /\ \/ unitFn = "parseZoomRange" /\ unitIn \in {Str(z) : z \in ZoomStrings}
     \/ unitFn = "assertTemplateUrl" /\ unitIn \in UrlValues
     \/ unitFn = "parseInput" /\ unitIn \in InputValues

\* the zoom check of the validator, then parseZoomRange on what it accepts
RunParseZoomRange ==
  /\ unitFn = "parseZoomRange"
  /\ unitOut = Pending
  /\ unitOut' = IF ZoomGrammarTest(unitIn.s)
                THEN Result(NoThrow, NumArr(parseZoomRange(unitIn.s)), <<"parseZoomRange">>)
                ELSE Result(throwArgumentError("Invalid \"zoom\" argument"), Undefined, <<>>)
  /\ UNCHANGED <<defaultOpts, argv, outcome, calls, unitFn, unitIn>>

RunAssertTemplateUrl ==
  /\ unitFn = "assertTemplateUrl"
  /\ unitOut = Pending
  /\ unitOut' = Result(assertTemplateUrl(unitIn), Undefined, <<"assertTemplateUrl">>)
  /\ UNCHANGED <<defaultOpts, argv, outcome, calls, unitFn, unitIn>>

RunParseInput ==
  /\ unitFn = "parseInput"
  /\ unitOut = Pending
  /\ unitOut' = LET r == parseInput(unitIn)
                IN Result(r.err, r.value, <<"parseInput">> \o r.steps)
  /\ UNCHANGED <<defaultOpts, argv, outcome, calls, unitFn, unitIn>>

NextUnits == RunParseZoomRange \/ RunAssertTemplateUrl \/ RunParseInput

SpecUnits == InitUnits /\ [][NextUnits]_vars

(***************************************************************************)
(* Properties.                                                             *)
(***************************************************************************)
\* a call has been made and has come back (returned or thrown)
CallMade == outcome.kind \in {"returned", "thrown"}

\* whether sub occurs somewhere in s
Contains(s, sub) ==
  \E i \in 1..Len(s) :
    i + Len(sub) - 1 <= Len(s) /\ SubSeq(s, i, i + Len(sub) - 1) = sub

\* the option bag the last call validated: line 24 merges into defaultOpts and
\* hands that same object on
ValidatedOpts == defaultOpts

\* C1: a getOpts call that fails a check of the validator (point without
\* buffer, zoom outside the grammar, url with a wrong scheme or a missing
\* placeholder) throws that check's error with no transformation step run:
\* no file is read, no expression is compiled, no configuration is returned.
C1_FailFast ==
  (CallMade /\ Validate(ValidatedOpts).thrown) =>
    /\ outcome.kind = "thrown"
    /\ outcome.message = Validate(ValidatedOpts).message
    /\ outcome.steps = <<>>
    /\ outcome.config = EmptyObj

\* a call that names a readable input file and a zoom expression, and fails
\* the url check
C1_Witness ==
  /\ outcome.kind = "thrown"
  /\ outcome.message = "Template url is missing parameter: {z}"
  /\ Get(argv, "input") = Str(PointJson)
  /\ Get(argv, "concurrency") = Str(ZoomExpression)
  /\ outcome.steps = <<>>

\* C2: after any sequence of getOpts calls the built-in defaults are unchanged,
\* and the outcome of a call is the one the same command line gives against the
\* built-in defaults.
C2_NoSharedState ==
  /\ defaultOpts = BuiltinDefaults
  /\ CallMade => outcome = getOpts(BuiltinDefaults, argv).outcome

\* C3: a call that gives a point and no buffer fails with an argument error.
C3_PointNeedsBuffer ==
  (CallMade /\ "point" \in DOMAIN argv /\ "buffer" \notin DOMAIN argv) =>
    outcome.kind = "thrown" /\ outcome.argumentError

\* C4: assertTemplateUrl succeeds exactly on a url that starts with http: or
\* https: and contains {x}, {y} and {z}; otherwise it throws an argument error:
\* 'Invalid url' when the scheme is wrong or the url is absent, and else the
\* message naming the first missing placeholder in the order {x}, {y}, {z}.
C4_TemplateUrl ==
  (unitFn = "assertTemplateUrl" /\ unitOut /= Pending) =>
    LET u == IF IsStr(unitIn) THEN unitIn.s ELSE <<>>
        scheme == /\ IsStr(unitIn)
                  /\ \/ Len(u) >= 5 /\ SubSeq(u, 1, 5) = <<"h", "t", "t", "p", ":">>
                     \/ Len(u) >= 6 /\ SubSeq(u, 1, 6) = <<"h", "t", "t", "p", "s", ":">>
        hasX == Contains(u, <<"{", "x", "}">>)
        hasY == Contains(u, <<"{", "y", "}">>)
        hasZ == Contains(u, <<"{", "z", "}">>)
        err == unitOut.err
    IN /\ ~err.thrown <=> (scheme /\ hasX /\ hasY /\ hasZ)
       /\ err.thrown => err.argumentError
       /\ ~scheme => err.message = "Invalid url"
       /\ (scheme /\ ~hasX) => err.message = "Template url is missing parameter: {x}"
       /\ (scheme /\ hasX /\ ~hasY) =>
            err.message = "Template url is missing parameter: {y}"
       /\ (scheme /\ hasX /\ hasY /\ ~hasZ) =>
            err.message = "Template url is missing parameter: {z}"

\* an https url with {z} alone: {x} and {y} are both missing and {x} is named
C4_Witness ==
  /\ unitFn = "assertTemplateUrl"
  /\ unitIn = Str(Https \o Slash \o PlaceholderZ)
  /\ unitOut.err = throwArgumentError("Template url is missing parameter: {x}")

\* C5: a directive that is neither a digit string nor a valid expression makes
\* getOpts fail with an argument error.
C5_MalformedDirective ==
  (/\ CallMade
   /\ outcome.steps /= <<>>
   /\ outcome.steps[Len(outcome.steps)] = "new Function"
   /\ \E d \in {"concurrency", "maxRetries", "retryBaseTimeout"} :
        /\ d \in DOMAIN argv
        /\ ~AllDigits(argv[d].s)
        /\ ~SyntaxValid(argv[d].s)) =>
    outcome.kind = "thrown" /\ outcome.argumentError

\* the numbers of a JavaScript array of integers
Ints(arr) == [i \in 1..Len(arr.a) |-> arr.a[i].m]

\* how often n occurs in the sequence q
Count(q, n) == Cardinality({i \in 1..Len(q) : q[i] = n})

\* C6: on a string the zoom grammar accepts, parseZoomRange gives a, a+1, ..., b
\* for "a-b" with a <= b, and for a comma list the same numbers, each as often
\* as it is listed, in ascending order.
C6_ZoomParse ==
  (unitFn = "parseZoomRange" /\ unitOut.steps = <<"parseZoomRange">>) =>
    LET z == unitIn.s
        out == Ints(unitOut.value)
        dashes == {i \in 1..Len(z) : z[i] = "-"}
    IN IF dashes /= {}
       THEN LET i == CHOOSE i \in dashes : TRUE
                a == DecimalValue(SubSeq(z, 1, i - 1))
                b == DecimalValue(SubSeq(z, i + 1, Len(z)))
            IN a <= b => out = [j \in 1..(b - a + 1) |-> a + j - 1]
       ELSE LET listed == [j \in 1..Len(Split(z, ",")) |-> DecimalValue(Split(z, ",")[j])]
            IN /\ Len(out) = Len(listed)
               /\ \A j \in 1..Len(listed) : Count(out, listed[j]) = Count(listed, listed[j])
               /\ \A j \in 1..(Len(out) - 1) : out[j] <= out[j + 1]

\* "9,3,5" gives [3, 5, 9]
C6_Witness ==
  /\ unitFn = "parseZoomRange"
  /\ unitIn = Str(<<"9", ",", "3", ",", "5">>)
  /\ unitOut.steps = <<"parseZoomRange">>
  /\ Ints(unitOut.value) = <<3, 5, 9>>

\* the raw value of option k under the stated precedence: the command line's
\* value when given, the built-in default otherwise
RawByPrecedence(k) == IF k \in DOMAIN argv THEN argv[k] ELSE Get(BuiltinDefaults, k)

\* C7: in a returned configuration the seven derived fields hold the
\* transformed value of the user's option, or of the built-in default when the
\* option is not given; every other field holds the user's value, or the
\* built-in default; headers are the default's keys overlaid by the user's.
C7_Precedence ==
  outcome.kind = "returned" =>
    LET c == outcome.config
    IN /\ c.buffer = parseBuffer(RawByPrecedence("buffer"))
       /\ c.zoom = NumArr(parseZoomRange(RawByPrecedence("zoom").s))
       /\ c.point = parsePoint(RawByPrecedence("point"))
       /\ c.input = parseInput(RawByPrecedence("input")).value
       /\ \A d \in {"concurrency", "maxRetries", "retryBaseTimeout"} :
            c[d] = parseNumberOrZoomFunction(RawByPrecedence(d)).value
       /\ \A k \in {"url", "list", "method", "verbose", "requestTimeout"} :
            c[k] = RawByPrecedence(k)
       /\ c.headers.t = "object"
       /\ DOMAIN c.headers.o =
            DOMAIN BuiltinDefaults.headers.o
              \cup (IF "headers" \in DOMAIN argv THEN DOMAIN argv.headers.o ELSE {})
       /\ \A h \in DOMAIN c.headers.o :
            c.headers.o[h] =
              IF "headers" \in DOMAIN argv /\ h \in DOMAIN argv.headers.o
              THEN argv.headers.o[h]
              ELSE BuiltinDefaults.headers.o[h]

\* C8: parseInput with no path returns null and reads no file; with a file that
\* is not JSON it throws the argument error 'Invalid JSON'; with a file that is
\* JSON it returns the parsed value; a failed read throws an untagged error.
C8_ParseInput ==
  (unitFn = "parseInput" /\ unitOut /= Pending) =>
    LET err == unitOut.err
    IN /\ unitIn \in {Undefined, Null, Str(<<>>)} =>
            /\ ~err.thrown
            /\ unitOut.value = Null
            /\ \A i \in 1..Len(unitOut.steps) : unitOut.steps[i] /= "readFileSync"
       /\ unitIn = Str(BrokenJson) =>
            err = [thrown |-> TRUE, argumentError |-> TRUE, message |-> "Invalid JSON"]
       /\ unitIn = Str(PointJson) => ~err.thrown /\ unitOut.value = PointGeometry
       /\ unitIn = Str(MissingJson) => err.thrown /\ ~err.argumentError

\* the read of a path that names no file has failed
C8_Witness ==
  /\ unitFn = "parseInput"
  /\ unitIn = Str(MissingJson)
  /\ unitOut.err.thrown
  /\ unitOut.steps = <<"parseInput", "readFileSync">>

\* C9: the zoom of a returned configuration is a non-empty ascending sequence
\* of non-negative integers, whatever string the grammar accepted.
C9_ZoomShape ==
  outcome.kind = "returned" =>
    LET z == outcome.config.zoom.a
    IN /\ Len(z) > 0
       /\ \A i \in 1..Len(z) : z[i].k = 0 /\ z[i].m >= 0
       /\ \A i \in 1..(Len(z) - 1) : z[i].m <= z[i + 1].m

\* C10: the point of a returned configuration is the {lat, lng} pair parsed
\* from the point given, and is absent when no point is given.
C10_PointOrAbsent ==
  outcome.kind = "returned" =>
    IF "point" \in DOMAIN argv
    THEN outcome.config.point = parsePoint(argv.point)
    ELSE Get(outcome.config, "point") = Undefined

====
